---- MODULE Spec2Model ----
(***************************************************************************)
(* Model of autogpt/commands/file_operations.py: the sandboxed file store  *)
(* (read / write / append / delete / search), its operation log, the path  *)
(* guard safe_join, the line editor edit_line, the chunker split_file and   *)
(* ingest_file.                                                            *)
(*                                                                         *)
(* Python strings are sequences of one-character strings; the file system  *)
(* is a function from absolute paths to directory or file entries.         *)
(***************************************************************************)
EXTENDS Integers, Sequences, FiniteSets, TLC

VARIABLES
    fs,        \* the file system: existing absolute path -> entry
    pc,        \* position of the running call: "idle" between calls
    call,      \* the arguments of the current / most recent call
    ret,       \* what the most recent call returned or raised
    edit,      \* locals of a running edit_line (filepath, original_lines, lines) and
               \* pre, the content of the file when the call read it
    touched,   \* paths a call has read, listed, created, written or removed
    recorded,  \* the entry lines log_operation has written, in order
    history,   \* <<operation, filename>> of every call that returned success
    nops,      \* number of calls made so far
    split,     \* locals of a running split_file generator and what it has yielded
    memory     \* the strings handed to memory.add, in call order

vars == <<fs, pc, call, ret, edit, touched, recorded, history, nops, split, memory>>

----------------------------------------------------------------------------
(* Bounds *)

\* number of calls in one session
MaxOps == 3
\* depth at which the interpreter raises RecursionError (scaled down)
RecursionLimit == 4
\* longest initial content of the edited file
MaxLen == 3
\* longest relative path handed to safe_join on its own
MaxRel == 5
\* longest content handed to split_file
MaxContent == 5
\* greatest max_length and overlap handed to split_file
MaxWindow == 3

----------------------------------------------------------------------------
(* Strings *)

\* F applied to v: the value v is computed once and named by the parameter of F
With(v, F(_)) == F(v)

Ord ==
    ("\n" :> 10) @@ (" " :> 32) @@ ("'" :> 39) @@ ("," :> 44) @@ ("-" :> 45) @@ ("." :> 46) @@ ("/" :> 47) @@ ("0" :> 48) @@ ("1" :> 49) @@ ("2" :> 50) @@ ("3" :> 51) @@ ("4" :> 52) @@ ("5" :> 53) @@ ("6" :> 54) @@ ("7" :> 55) @@ ("8" :> 56) @@ ("9" :> 57) @@ (":" :> 58) @@ ("A" :> 65) @@ ("B" :> 66) @@ ("C" :> 67) @@ ("D" :> 68) @@ ("E" :> 69) @@ ("F" :> 70) @@ ("G" :> 71) @@ ("H" :> 72) @@ ("I" :> 73) @@ ("J" :> 74) @@ ("K" :> 75) @@ ("L" :> 76) @@ ("M" :> 77) @@ ("N" :> 78) @@ ("O" :> 79) @@ ("P" :> 80) @@ ("Q" :> 81) @@ ("R" :> 82) @@ ("S" :> 83) @@ ("T" :> 84) @@ ("U" :> 85) @@ ("V" :> 86) @@ ("W" :> 87) @@ ("X" :> 88) @@ ("Y" :> 89) @@ ("Z" :> 90) @@ ("[" :> 91) @@ ("]" :> 93) @@ ("_" :> 95) @@ ("a" :> 97) @@ ("b" :> 98) @@ ("c" :> 99) @@ ("d" :> 100) @@ ("e" :> 101) @@ ("f" :> 102) @@ ("g" :> 103) @@ ("h" :> 104) @@ ("i" :> 105) @@ ("j" :> 106) @@ ("k" :> 107) @@ ("l" :> 108) @@ ("m" :> 109) @@ ("n" :> 110) @@ ("o" :> 111) @@ ("p" :> 112) @@ ("q" :> 113) @@ ("r" :> 114) @@ ("s" :> 115) @@ ("t" :> 116) @@ ("u" :> 117) @@ ("v" :> 118) @@ ("w" :> 119) @@ ("x" :> 120) @@ ("y" :> 121) @@ ("z" :> 122)

\* s[i:j] with 0-based, end-exclusive Python indices, 0 <= i
Slice(s, i, j) ==
    IF j <= i THEN << >>
    ELSE SubSeq(s, i + 1, IF j > Len(s) THEN Len(s) ELSE j)

\* s.startswith(p)
StartsWith(s, p) == Len(p) <= Len(s) /\ SubSeq(s, 1, Len(p)) = p

\* s.endswith(p)
EndsWith(s, p) == Len(p) <= Len(s) /\ SubSeq(s, Len(s) - Len(p) + 1, Len(s)) = p

\* s[i:i+len(p)] == p, 0-based
MatchAt(s, p, i) ==
    /\ i + Len(p) <= Len(s)
    /\ \A k \in 1..Len(p) : s[i + k] = p[k]

\* the least and the greatest element of a non-empty set of integers
Min(S) == CHOOSE i \in S : \A j \in S : i <= j
Max(S) == CHOOSE i \in S : \A j \in S : j <= i

\* s.find(p, from), -1 when absent
Find(s, p, from) ==
    With({i \in from..(Len(s) - Len(p)) : MatchAt(s, p, i)}, LAMBDA hits :
        IF hits = {} THEN -1 ELSE Min(hits))

\* p in s
Contains(s, p) == \E i \in 0..(Len(s) - Len(p)) : MatchAt(s, p, i)

\* s.rfind(c) for a character c, -1 when absent
RFind(s, c) ==
    With({i \in 1..Len(s) : s[i] = c}, LAMBDA hits :
        IF hits = {} THEN -1 ELSE Max(hits) - 1)

\* s.rstrip(c) for a character c
RStrip(s, c) ==
    IF \A i \in 1..Len(s) : s[i] = c THEN << >>
    ELSE SubSeq(s, 1, CHOOSE i \in 1..Len(s) :
                        s[i] # c /\ \A j \in (i + 1)..Len(s) : s[j] = c)

\* a < b for Python strings (code point order)
StrLess(a, b) ==
    \E i \in 1..Len(b) :
        /\ \A k \in 1..(i - 1) : k <= Len(a) /\ a[k] = b[k]
        /\ i > Len(a) \/ Ord[a[i]] < Ord[b[i]]

\* sep.join(parts)
RECURSIVE JoinWith(_, _)
JoinWith(sep, parts) ==
    IF parts = << >> THEN << >>
    ELSE IF Len(parts) = 1 THEN parts[1]
    ELSE parts[1] \o sep \o JoinWith(sep, Tail(parts))

\* "".join(parts), which is what writelines puts in the file
Concat(parts) == JoinWith(<< >>, parts)

\* the elements of a set of integers in increasing order
Sorted(S) == [k \in 1..Cardinality(S) |-> CHOOSE i \in S : Cardinality({j \in S : j < i}) = k - 1]

\* s.split(sep) for a one-character separator
Split(s, sep) ==
    With(Sorted({i \in 1..Len(s) : s[i] = sep}), LAMBDA at :
        [k \in 1..(Len(at) + 1) |->
            SubSeq(s, IF k = 1 THEN 1 ELSE at[k - 1] + 1,
                      IF k = Len(at) + 1 THEN Len(s) ELSE at[k] - 1)])

---------------------------------------------------------------------------
(* posixpath *)

SLASH == <<"/">>
DOT == <<".">>
DOTDOT == <<".", ".">>

\* os.path.join(a, b)
PathJoin(a, b) ==
    IF StartsWith(b, SLASH) THEN b
    ELSE IF a = << >> \/ EndsWith(a, SLASH) THEN a \o b
    ELSE a \o SLASH \o b

\* the loop of os.path.normpath over the components still to be read
RECURSIVE NormComps(_, _, _)
NormComps(comps, new_comps, initial_slashes) ==
    IF comps = << >> THEN new_comps
    ELSE
        LET comp == Head(comps)
            keep == \/ comp # DOTDOT
                    \/ (initial_slashes = 0 /\ new_comps = << >>)
                    \/ (new_comps # << >> /\ new_comps[Len(new_comps)] = DOTDOT)
        IN  IF comp = << >> \/ comp = DOT
            THEN NormComps(Tail(comps), new_comps, initial_slashes)
            ELSE IF keep
            THEN NormComps(Tail(comps), Append(new_comps, comp), initial_slashes)
            ELSE IF new_comps # << >>
            THEN NormComps(Tail(comps), SubSeq(new_comps, 1, Len(new_comps) - 1),
                           initial_slashes)
            ELSE NormComps(Tail(comps), new_comps, initial_slashes)

\* os.path.normpath(path)
NormPath(path) ==
    IF path = << >> THEN DOT
    ELSE
        With(IF ~StartsWith(path, SLASH) THEN 0
             ELSE IF StartsWith(path, SLASH \o SLASH)
                        /\ ~StartsWith(path, SLASH \o SLASH \o SLASH) THEN 2
             ELSE 1, LAMBDA initial_slashes :
        With([k \in 1..initial_slashes |-> "/"]
                \o JoinWith(SLASH, NormComps(Split(path, "/"), << >>, initial_slashes)),
             LAMBDA out :
            IF out = << >> THEN DOT ELSE out))

\* os.path.commonprefix([a, b]): s1[:i] for the first i where min and max differ
CommonPrefix(a, b) ==
    With(IF StrLess(b, a) THEN <<b, a>> ELSE <<a, b>>, LAMBDA m :
    With({i \in 0..(Len(m[1]) - 1) : i >= Len(m[2]) \/ m[1][i + 1] # m[2][i + 1]}, LAMBDA diff :
        IF diff = {} THEN m[1] ELSE Slice(m[1], 0, Min(diff))))

\* os.path.dirname(p)
DirName(p) ==
    With(Slice(p, 0, RFind(p, "/") + 1), LAMBDA head :
        IF head # << >> /\ head # [k \in 1..Len(head) |-> "/"]
        THEN RStrip(head, "/")
        ELSE head)

\* os.path.basename(p)
BaseName(p) == Slice(p, RFind(p, "/") + 1, Len(p))

---------------------------------------------------------------------------
(* Module constants *)

WORKING_DIRECTORY ==
    <<"/", "h", "/", "a", "u", "t", "o", "_", "g", "p", "t", "_", "w", "o", "r", "k", "s", "p", "a", "c", "e">>

LOG_FILE == <<"f", "i", "l", "e", "_", "l", "o", "g", "g", "e", "r", ".", "t", "x", "t">>

LOG_FILE_PATH == PathJoin(WORKING_DIRECTORY, LOG_FILE)

LOG_HEADER ==
    <<"F", "i", "l", "e", " ", "O", "p", "e", "r", "a", "t", "i", "o", "n", " ", "L", "o", "g", "g", "e", "r", " ">>

---------------------------------------------------------------------------
(* PathGuard *)

OUTSIDE_MSG ==
    <<"A", "t", "t", "e", "m", "p", "t", "e", "d", " ", "t", "o", " ", "a", "c", "c", "e", "s", "s", " ", "o", "u", "t", "s", "i", "d", "e", " ", "o", "f", " ", "w", "o", "r", "k", "i", "n", "g", " ", "d", "i", "r", "e", "c", "t", "o", "r", "y", ".">>

\* safe_join with the prefix test made on the path before it is normalized
safe_join_unnormalized(base, path) ==
    With(PathJoin(base, path), LAMBDA new_path :
        IF CommonPrefix(base, new_path) # base
        THEN [ok |-> FALSE, path |-> OUTSIDE_MSG]
        ELSE [ok |-> TRUE, path |-> NormPath(new_path)])

\* safe_join(base, path): [ok |-> TRUE, path |-> norm_new_path], or the ValueError
safe_join(base, path) ==
    With(NormPath(PathJoin(base, path)), LAMBDA norm_new_path :
        IF CommonPrefix(base, norm_new_path) # base
        THEN [ok |-> FALSE, path |-> OUTSIDE_MSG]
        ELSE [ok |-> TRUE, path |-> norm_new_path])

---------------------------------------------------------------------------
(* The names the session uses *)

FN_A == <<"a">>
FN_SUB == <<"d", "/", "a">>
FN_UP == <<".", ".", "/", "a">>
FN_SIBLING ==
    <<".", ".", "/", "a", "u", "t", "o", "_", "g", "p", "t", "_", "w", "o", "r", "k", "s", "p", "a", "c", "e", "2", "/", "a">>

\* filenames the session passes to the file store
FileNames == {FN_A, FN_SUB, FN_UP, FN_SIBLING, LOG_FILE}

\* texts the session writes and appends
Texts == {<<"x">>, <<"y">>}

\* directories the session searches
Directories == {<< >>, DOTDOT, DirName(FN_SIBLING)}

\* safe_join(WORKING_DIRECTORY, n) of the session's names, computed once
Joined == [n \in FileNames \cup Directories |-> safe_join(WORKING_DIRECTORY, n)]

\* safe_join(WORKING_DIRECTORY, filename)
Resolve(filename) == Joined[filename]

---------------------------------------------------------------------------
(* The file system under the calls of os and open *)

DirEntry == [kind |-> "dir", data |-> << >>]
FileEntry(data) == [kind |-> "file", data |-> data]

\* os.path.exists(p)
Exists(f, p) == p \in DOMAIN f
\* os.path.isfile(p)
IsFile(f, p) == p \in DOMAIN f /\ f[p].kind = "file"
\* os.path.isdir(p)
IsDir(f, p) == p \in DOMAIN f /\ f[p].kind = "dir"

\* f with path p bound to entry e
Bind(f, p, e) == [q \in (DOMAIN f) \cup {p} |-> IF q = p THEN e ELSE f[q]]
\* f without path p
Unbind(f, p) == [q \in (DOMAIN f) \ {p} |-> f[q]]

\* the nearest existing ancestor-or-self of d is a regular file
RECURSIVE FileAncestor(_, _)
FileAncestor(f, d) ==
    IF d \in DOMAIN f THEN f[d].kind = "file"
    ELSE With(DirName(d), LAMBDA up : up # d /\ FileAncestor(f, up))

\* errno of resolving the directory part of p: 0, ENOENT or ENOTDIR
ParentErrno(f, p) ==
    With(DirName(p), LAMBDA d :
        IF FileAncestor(f, d) THEN 20
        ELSE IF ~Exists(f, d) THEN 2
        ELSE 0)

\* errno of open(p, mode), mode one of "r", "w", "a"; 0 when the open succeeds
OpenErrno(f, p, mode) ==
    With(ParentErrno(f, p), LAMBDA errno :
        IF errno # 0 THEN errno
        ELSE IF IsDir(f, p) THEN 21
        ELSE IF mode = "r" /\ ~Exists(f, p) THEN 2
        ELSE 0)

\* errno of os.remove(p)
RemoveErrno(f, p) ==
    With(ParentErrno(f, p), LAMBDA errno :
        IF errno # 0 THEN errno
        ELSE IF ~Exists(f, p) THEN 2
        ELSE IF IsDir(f, p) THEN 21
        ELSE 0)

\* errno of os.makedirs(d) for a d that os.path.exists reports missing
MakedirsErrno(f, d) == IF FileAncestor(f, d) THEN 20 ELSE 0

\* the file system after a successful os.makedirs(d)
RECURSIVE Makedirs(_, _)
Makedirs(f, d) ==
    IF d \in DOMAIN f THEN f
    ELSE With(DirName(d), LAMBDA up :
            IF up = d THEN f ELSE Bind(Makedirs(f, up), d, DirEntry))

\* the directories os.makedirs(d) creates
RECURSIVE MadeDirs(_, _)
MadeDirs(f, d) ==
    IF d \in DOMAIN f THEN {}
    ELSE With(DirName(d), LAMBDA up :
            IF up = d THEN {} ELSE MadeDirs(f, up) \cup {d})

ENOENT_MSG ==
    <<"[", "E", "r", "r", "n", "o", " ", "2", "]", " ", "N", "o", " ", "s", "u", "c", "h", " ", "f", "i", "l", "e", " ", "o", "r", " ", "d", "i", "r", "e", "c", "t", "o", "r", "y", ":", " ", "'">>
EISDIR_MSG ==
    <<"[", "E", "r", "r", "n", "o", " ", "2", "1", "]", " ", "I", "s", " ", "a", " ", "d", "i", "r", "e", "c", "t", "o", "r", "y", ":", " ", "'">>
ENOTDIR_MSG ==
    <<"[", "E", "r", "r", "n", "o", " ", "2", "0", "]", " ", "N", "o", "t", " ", "a", " ", "d", "i", "r", "e", "c", "t", "o", "r", "y", ":", " ", "'">>

\* str(e) of the OSError with this errno on path p
OSErrorStr(errno, p) ==
    (IF errno = 2 THEN ENOENT_MSG ELSE IF errno = 21 THEN EISDIR_MSG ELSE ENOTDIR_MSG)
        \o p \o <<"'">>

ERROR_PREFIX == <<"E", "r", "r", "o", "r", ":", " ">>

---------------------------------------------------------------------------
(* FileStore and OperationLog.  The operators take and return the world w =  *)
(* [fs, touched, recorded]; depth is the number of frames above the call.    *)

OpName ==
    ("write" :> <<"w", "r", "i", "t", "e">>) @@ ("append" :> <<"a", "p", "p", "e", "n", "d">>)
        @@ ("delete" :> <<"d", "e", "l", "e", "t", "e">>)

\* f"{operation}: {filename}\n"
LogEntry(operation, filename) == OpName[operation] \o <<":", " ">> \o filename \o <<"\n">>

Touch(w, ps) == [w EXCEPT !.touched = @ \cup ps]

\* read_file(filename): the returned string, a content or an "Error: ..." text
read_file(w, filename) ==
    With(Resolve(filename), LAMBDA j :
        IF ~j.ok THEN [w |-> w, val |-> ERROR_PREFIX \o j.path, ok |-> FALSE]
        ELSE
            With(OpenErrno(w.fs, j.path, "r"), LAMBDA errno :
                IF errno # 0
                THEN [w |-> w, val |-> ERROR_PREFIX \o OSErrorStr(errno, j.path), ok |-> FALSE]
                ELSE [w |-> Touch(w, {j.path}), val |-> w.fs[j.path].data, ok |-> TRUE]))

\* check_duplicate_operation(operation, filename)
check_duplicate_operation(w, operation, filename) ==
    With(read_file(w, LOG_FILE), LAMBDA log_content :
        [w |-> log_content.w,
         dup |-> Contains(log_content.val, LogEntry(operation, filename))])

RECURSIVE append_to_file(_, _, _, _)
RECURSIVE log_operation(_, _, _, _)

\* log_operation(operation, filename), entered at the given depth
log_operation(w, operation, filename, depth) ==
    IF depth > RecursionLimit
    THEN \* RecursionError, caught by the except clause of the calling frame
         w
    ELSE
        With(append_to_file(IF ~Exists(w.fs, LOG_FILE_PATH)
                            THEN [w EXCEPT !.fs = Bind(@, LOG_FILE_PATH, FileEntry(LOG_HEADER)),
                                           !.touched = @ \cup {LOG_FILE_PATH}]
                            ELSE w,
                            LOG_FILE, LogEntry(operation, filename), depth + 1), LAMBDA r :
            IF r.ret = "appended"
            THEN \* the entry was written before the entries of the nested calls
                 [r.w EXCEPT !.recorded = SubSeq(@, 1, Len(w.recorded))
                                              \o <<LogEntry(operation, filename)>>
                                              \o SubSeq(@, Len(w.recorded) + 1, Len(@))]
            ELSE r.w)

\* the file system after open(filepath, "a") and f.write(text)
AppendData(f, filepath, text) ==
    Bind(f, filepath,
         FileEntry((IF Exists(f, filepath) THEN f[filepath].data ELSE << >>) \o text))

\* append_to_file(filename, text), entered at the given depth
append_to_file(w, filename, text, depth) ==
    IF depth > RecursionLimit
    THEN \* RecursionError, caught by the except clause of the nearest frame
         [w |-> w, ret |-> "recursion"]
    ELSE
        With(Resolve(filename), LAMBDA j :
            IF ~j.ok THEN [w |-> w, ret |-> "outside"]
            ELSE IF OpenErrno(w.fs, j.path, "a") # 0 THEN [w |-> w, ret |-> "oserror"]
            ELSE [w |-> log_operation([w EXCEPT !.fs = AppendData(@, j.path, text),
                                                !.touched = @ \cup {j.path}],
                                      "append", filename, depth + 1),
                  ret |-> "appended"])

\* write_to_file(filename, text)
write_to_file(w, filename, text) ==
    With(check_duplicate_operation(w, "write", filename), LAMBDA c :
    With(Resolve(filename), LAMBDA j :
    With(DirName(j.path), LAMBDA directory :
    With(IF Exists(c.w.fs, directory) THEN c.w
         ELSE [c.w EXCEPT !.fs = Makedirs(@, directory),
                          !.touched = @ \cup MadeDirs(c.w.fs, directory)], LAMBDA w1 :
        IF c.dup THEN [w |-> c.w, ret |-> "duplicate"]
        ELSE IF ~j.ok THEN [w |-> c.w, ret |-> "outside"]
        ELSE IF ~Exists(c.w.fs, directory) /\ MakedirsErrno(c.w.fs, directory) # 0
        THEN [w |-> c.w, ret |-> "oserror"]
        ELSE IF OpenErrno(w1.fs, j.path, "w") # 0 THEN [w |-> w1, ret |-> "oserror"]
        ELSE [w |-> log_operation([w1 EXCEPT !.fs = Bind(@, j.path, FileEntry(text)),
                                             !.touched = @ \cup {j.path}],
                                  "write", filename, 1),
              ret |-> "written"]))))

\* delete_file(filename)
delete_file(w, filename) ==
    With(check_duplicate_operation(w, "delete", filename), LAMBDA c :
    With(Resolve(filename), LAMBDA j :
        IF c.dup THEN [w |-> c.w, ret |-> "duplicate"]
        ELSE IF ~j.ok THEN [w |-> c.w, ret |-> "outside"]
        ELSE IF RemoveErrno(c.w.fs, j.path) # 0 THEN [w |-> c.w, ret |-> "oserror"]
        ELSE [w |-> log_operation([c.w EXCEPT !.fs = Unbind(@, j.path),
                                              !.touched = @ \cup {j.path}],
                                  "delete", filename, 1),
              ret |-> "deleted"]))

\* [x for x in path.split("/") if x]
PathList(path) == SelectSeq(Split(path, "/"), LAMBDA x : x # << >>)

\* len(commonprefix([a, b])) for two lists of components
RECURSIVE CommonLen(_, _)
CommonLen(a, b) ==
    IF a = << >> \/ b = << >> \/ Head(a) # Head(b) THEN 0
    ELSE 1 + CommonLen(Tail(a), Tail(b))

\* os.path.relpath(path, start) for absolute path and start
RelPath(path, start) ==
    With(PathList(start), LAMBDA start_list :
    With(PathList(path), LAMBDA path_list :
    With(CommonLen(start_list, path_list), LAMBDA i :
    With([k \in 1..(Len(start_list) - i) |-> DOTDOT]
            \o SubSeq(path_list, i + 1, Len(path_list)), LAMBDA rel_list :
        IF rel_list = << >> THEN DOT ELSE JoinWith(SLASH, rel_list)))))

\* p lies in the directory tree of top
Under(p, top) == p # top /\ StartsWith(p, IF EndsWith(top, SLASH) THEN top ELSE top \o SLASH)

\* search_files(directory); the list is returned as a set, os.walk fixes no order
search_files(w, directory) ==
    With(IF directory \in {<< >>, SLASH} THEN [ok |-> TRUE, path |-> WORKING_DIRECTORY]
         ELSE Resolve(directory), LAMBDA j :
    With(IF IsDir(w.fs, j.path)
         THEN {j.path} \cup {d \in DOMAIN w.fs : IsDir(w.fs, d) /\ Under(d, j.path)}
         ELSE {}, LAMBDA walked :
        IF ~j.ok THEN [w |-> w, ret |-> "outside", val |-> {}]
        ELSE [w |-> Touch(w, walked), ret |-> "found",
              val |-> {RelPath(p, WORKING_DIRECTORY) :
                        p \in {q \in DOMAIN w.fs :
                                /\ IsFile(w.fs, q)
                                /\ DirName(q) \in walked
                                /\ ~StartsWith(BaseName(q), DOT)}}]))

---------------------------------------------------------------------------
(* LineEditor *)

\* the value None of an optional argument
NONE == <<"<None>">>
\* a line_numbers argument that is not a str
NOT_STR == <<"<int>">>

BAK == <<".", "b", "a", "k">>

actions == {"add", "insert", "modify", "replace", "delete"}

Digits == {"0", "1", "2", "3", "4", "5", "6", "7", "8", "9"}
Whitespace == {" ", "\n"}

\* s.strip()
RECURSIVE Strip(_)
Strip(s) ==
    IF s # << >> /\ Head(s) \in Whitespace THEN Strip(Tail(s))
    ELSE IF s # << >> /\ s[Len(s)] \in Whitespace THEN Strip(SubSeq(s, 1, Len(s) - 1))
    ELSE s

\* the value of a string of decimal digits
RECURSIVE DigitsValue(_)
DigitsValue(s) ==
    IF s = << >> THEN 0
    ELSE 10 * DigitsValue(SubSeq(s, 1, Len(s) - 1)) + (Ord[s[Len(s)]] - 48)

\* int(s): surrounding whitespace and one sign are accepted; ok = FALSE is ValueError
ParseInt(s) ==
    With(Strip(s), LAMBDA t :
    With(IF t # << >> /\ Head(t) \in {"-", "+"} THEN Tail(t) ELSE t, LAMBDA body :
        IF body = << >> \/ \E i \in 1..Len(body) : body[i] \notin Digits
        THEN [ok |-> FALSE, val |-> 0]
        ELSE [ok |-> TRUE,
              val |-> IF Head(t) = "-" THEN 0 - DigitsValue(body) ELSE DigitsValue(body)]))

\* lines 274-279: the list of ints, or ok = FALSE for the ValueError
ParseLineNumbers(line_numbers) ==
    With(IF Contains(line_numbers, <<",">>) THEN Split(line_numbers, ",")
         ELSE <<line_numbers>>, LAMBDA parts :
    With([i \in 1..Len(parts) |-> ParseInt(parts[i])], LAMBDA ints :
        IF \E i \in 1..Len(ints) : ~ints[i].ok
        THEN [ok |-> FALSE, val |-> << >>]
        ELSE [ok |-> TRUE, val |-> [i \in 1..Len(ints) |-> ints[i].val]]))

\* f.readlines(): the lines of a content, each with its terminator
ReadLines(content) ==
    With(Sorted({i \in 1..Len(content) : content[i] = "\n"} \cup
                (IF content = << >> THEN {} ELSE {Len(content)})), LAMBDA ends :
        [k \in 1..Len(ends) |-> SubSeq(content, IF k = 1 THEN 1 ELSE ends[k - 1] + 1, ends[k])])

\* s.replace(old, new, 1): only the first occurrence is replaced
Replace_first(s, old, new) ==
    With(Find(s, old, 0), LAMBDA i :
        IF i = -1 THEN s
        ELSE Slice(s, 0, i) \o new \o Slice(s, i + Len(old), Len(s)))

\* s.replace(old, new)
RECURSIVE Replace(_, _, _)
Replace(s, old, new) ==
    IF old = << >>
    THEN \* new goes before every character and at the end
         IF s = << >> THEN new ELSE new \o <<Head(s)>> \o Replace(Tail(s), old, new)
    ELSE With(Find(s, old, 0), LAMBDA i :
            IF i = -1 THEN s
            ELSE Slice(s, 0, i) \o new \o Replace(Slice(s, i + Len(old), Len(s)), old, new))

\* lines.insert(i + 1, x): the new line goes after the target line
ListInsert_after(lines, i, x) ==
    SubSeq(lines, 1, i + 1) \o <<x>> \o SubSeq(lines, i + 2, Len(lines))

\* lines.insert(i, x) for 0 <= i <= len(lines)
ListInsert(lines, i, x) == SubSeq(lines, 1, i) \o <<x>> \o SubSeq(lines, i + 1, Len(lines))

\* lines.pop(i) for 0 <= i < len(lines)
ListPop(lines, i) == SubSeq(lines, 1, i) \o SubSeq(lines, i + 2, Len(lines))

RECURSIVE ApplyEdits(_, _, _, _, _)

\* the loop without the test of line 293: a line that lacks old_text is left as it is
ApplyEdits_unchecked(lines, line_numbers, action, old_text, new_text) ==
    IF line_numbers = << >> THEN [err |-> "none", lines |-> lines]
    ELSE
        LET line_number == Head(line_numbers) IN
        IF line_number < 1 \/ line_number > Len(lines)
        THEN [err |-> "range", lines |-> lines]
        ELSE IF action \in {"add", "insert"}
        THEN ApplyEdits(ListInsert(lines, line_number - 1, new_text \o <<"\n">>),
                        Tail(line_numbers), action, old_text, new_text)
        ELSE IF action \in {"replace", "modify"}
        THEN ApplyEdits([lines EXCEPT ![line_number] = Replace(@, old_text, new_text)],
                        Tail(line_numbers), action, old_text, new_text)
        ELSE IF action = "delete"
        THEN ApplyEdits(ListPop(lines, line_number - 1),
                        Tail(line_numbers), action, old_text, new_text)
        ELSE ApplyEdits(lines, Tail(line_numbers), action, old_text, new_text)

\* the loop taking the line numbers from the last to the first
ApplyEdits_lastfirst(lines, line_numbers, action, old_text, new_text) ==
    IF line_numbers = << >> THEN [err |-> "none", lines |-> lines]
    ELSE
        LET line_number == line_numbers[Len(line_numbers)]
            rest == SubSeq(line_numbers, 1, Len(line_numbers) - 1)
        IN
        IF line_number < 1 \/ line_number > Len(lines)
        THEN [err |-> "range", lines |-> lines]
        ELSE IF action \in {"add", "insert"}
        THEN ApplyEdits(ListInsert(lines, line_number - 1, new_text \o <<"\n">>),
                        rest, action, old_text, new_text)
        ELSE IF action \in {"replace", "modify"}
        THEN IF ~Contains(lines[line_number], old_text)
             THEN [err |-> "notfound", lines |-> lines]
             ELSE ApplyEdits([lines EXCEPT ![line_number] = Replace(@, old_text, new_text)],
                             rest, action, old_text, new_text)
        ELSE IF action = "delete"
        THEN ApplyEdits(ListPop(lines, line_number - 1),
                        rest, action, old_text, new_text)
        ELSE ApplyEdits(lines, rest, action, old_text, new_text)

\* the loop of lines 286-297 over the line numbers still to be applied
ApplyEdits(lines, line_numbers, action, old_text, new_text) ==
    IF line_numbers = << >> THEN [err |-> "none", lines |-> lines]
    ELSE
        LET line_number == Head(line_numbers) IN
        IF line_number < 1 \/ line_number > Len(lines)
        THEN [err |-> "range", lines |-> lines]
        ELSE IF action \in {"add", "insert"}
        THEN ApplyEdits(ListInsert(lines, line_number - 1, new_text \o <<"\n">>),
                        Tail(line_numbers), action, old_text, new_text)
        ELSE IF action \in {"replace", "modify"}
        THEN IF ~Contains(lines[line_number], old_text)
             THEN [err |-> "notfound", lines |-> lines]
             ELSE ApplyEdits([lines EXCEPT ![line_number] = Replace(@, old_text, new_text)],
                             Tail(line_numbers), action, old_text, new_text)
        ELSE IF action = "delete"
        THEN ApplyEdits(ListPop(lines, line_number - 1),
                        Tail(line_numbers), action, old_text, new_text)
        ELSE ApplyEdits(lines, Tail(line_numbers), action, old_text, new_text)

\* lines 255-297 of edit_line: the error it stops with ("none" when it reaches the
\* backup), with the line lists it has built
EditApply(f, a) ==
    With(Resolve(a.filename), LAMBDA j :
    With(ParseLineNumbers(a.line_numbers), LAMBDA parsed :
    With(ReadLines(f[j.path].data), LAMBDA original_lines :
    With(ApplyEdits(original_lines, parsed.val, a.action, a.old_text, a.new_text),
         LAMBDA applied :
    With([err |-> "none", filepath |-> j.path, original_lines |-> << >>, lines |-> << >>],
         LAMBDA stop :
        IF ~j.ok THEN [stop EXCEPT !.err = "outside"]
        ELSE IF ~IsFile(f, j.path) THEN [stop EXCEPT !.err = "nofile"]
        ELSE IF a.line_numbers = NOT_STR THEN [stop EXCEPT !.err = "invalid_type"]
        ELSE IF a.action \notin actions THEN [stop EXCEPT !.err = "invalid_action"]
        ELSE IF a.action \in {"add", "replace", "insert", "modify"} /\ a.new_text = NONE
        THEN [stop EXCEPT !.err = "no_new_text"]
        ELSE IF a.action \in {"replace", "modify"} /\ a.old_text = NONE
        THEN [stop EXCEPT !.err = "no_old_text"]
        ELSE IF ~parsed.ok THEN [stop EXCEPT !.err = "invalid_format"]
        ELSE [err |-> applied.err, filepath |-> j.path,
              original_lines |-> original_lines, lines |-> applied.lines])))))

---------------------------------------------------------------------------
(* Chunker *)

\* the index i of a slice of a string of length n, as Python clamps it
SliceIndex(n, i) ==
    IF i < 0 THEN (IF n + i < 0 THEN 0 ELSE n + i)
    ELSE IF i > n THEN n ELSE i

\* s[i:j] for any integers i and j
PySlice(s, i, j) == Slice(s, SliceIndex(Len(s), i), SliceIndex(Len(s), j))

\* the chunk stops one character early
ChunkStop_short(content_length, start, max_length, overlap) ==
    With(start + max_length, LAMBDA end :
        IF end + overlap < content_length THEN end + overlap - 1 ELSE content_length)

\* lines 88-92: the index at which the chunk that starts at start stops
ChunkStop(content_length, start, max_length, overlap) ==
    With(start + max_length, LAMBDA end :
        IF end + overlap < content_length THEN end + overlap ELSE content_length)

\* start += overlap - max_length: the operands of the step are swapped
NextStart_swapped(start, max_length, overlap) == start + (overlap - max_length)

\* line 94: start += max_length - overlap
NextStart(start, max_length, overlap) == start + (max_length - overlap)

\* the chunks split_file yields from start on, for a generator that ends
RECURSIVE SplitFrom(_, _, _, _)
SplitFrom(content, max_length, overlap, start) ==
    IF ~(start < Len(content)) THEN << >>
    ELSE <<PySlice(content, start, ChunkStop(Len(content), start, max_length, overlap))>>
            \o SplitFrom(content, max_length, overlap, NextStart(start, max_length, overlap))

\* list(split_file(content, max_length, overlap))
split_file(content, max_length, overlap) == SplitFrom(content, max_length, overlap, 0)

---------------------------------------------------------------------------
(* Calls *)

NoCall ==
    [op |-> "none", base |-> WORKING_DIRECTORY, filename |-> << >>, text |-> NONE,
     line_numbers |-> NONE, action |-> "none", old_text |-> NONE, new_text |-> NONE,
     debug |-> FALSE]

FileCall(op, filename, text) == [NoCall EXCEPT !.op = op, !.filename = filename, !.text = text]

EditCall(filename, line_numbers, action, old_text, new_text, debug) ==
    [NoCall EXCEPT !.op = "edit", !.filename = filename, !.line_numbers = line_numbers,
                   !.action = action, !.old_text = old_text, !.new_text = new_text,
                   !.debug = debug]

\* the edit_line calls of the session
SessionEdits ==
    {EditCall(f, <<"1">>, "delete", NONE, NONE, FALSE) :
        f \in {FN_A, FN_UP, FN_SIBLING, LOG_FILE}}

NoEdit == [filepath |-> << >>, pre |-> << >>, original_lines |-> << >>, lines |-> << >>]

\* no generator is running
NoSplit ==
    [content |-> << >>, max_length |-> 0, overlap |-> 0, start |-> 0, chunks |-> << >>,
     windows |-> << >>]

Ret(kind, val) == [kind |-> kind, val |-> val]

World == [fs |-> fs, touched |-> touched, recorded |-> recorded]

---------------------------------------------------------------------------
(* The session: one action per call of the module's functions *)

Init ==
    /\ fs \in {(SLASH :> DirEntry) @@ (DirName(WORKING_DIRECTORY) :> DirEntry)
                    @@ (WORKING_DIRECTORY :> DirEntry),
               (SLASH :> DirEntry) @@ (DirName(WORKING_DIRECTORY) :> DirEntry)
                    @@ (WORKING_DIRECTORY :> DirEntry)
                    @@ (PathJoin(WORKING_DIRECTORY, FN_A) :> FileEntry(<<"a", "\n", "b", "\n">>))}
    /\ pc = "idle"
    /\ call = NoCall
    /\ ret = Ret("none", << >>)
    /\ edit = NoEdit
    /\ touched = {}
    /\ recorded = << >>
    /\ history = {}
    /\ nops = 0
    /\ split = NoSplit
    /\ memory = << >>

\* the state after a call that ran to its return in one step
Returned(c, w, r, success) ==
    /\ fs' = w.fs
    /\ touched' = w.touched
    /\ recorded' = w.recorded
    /\ call' = c
    /\ ret' = r
    /\ history' = IF success THEN history \cup {<<c.op, c.filename>>} ELSE history
    /\ nops' = nops + 1
    /\ UNCHANGED <<pc, edit>>

ReadFile(filename) ==
    /\ pc = "idle" /\ nops < MaxOps
    /\ \E r \in {read_file(World, filename)} :
            Returned(FileCall("read", filename, NONE), r.w,
                     Ret(IF r.ok THEN "content"
                         ELSE IF ~Resolve(filename).ok THEN "outside" ELSE "oserror", r.val),
                     FALSE)

WriteToFile(filename, text) ==
    /\ pc = "idle" /\ nops < MaxOps
    /\ \E r \in {write_to_file(World, filename, text)} :
            Returned(FileCall("write", filename, text), r.w, Ret(r.ret, << >>),
                     r.ret = "written")

AppendToFile(filename, text) ==
    /\ pc = "idle" /\ nops < MaxOps
    /\ \E r \in {append_to_file(World, filename, text, 0)} :
            Returned(FileCall("append", filename, text), r.w, Ret(r.ret, << >>),
                     r.ret = "appended")

DeleteFile(filename) ==
    /\ pc = "idle" /\ nops < MaxOps
    /\ \E r \in {delete_file(World, filename)} :
            Returned(FileCall("delete", filename, NONE), r.w, Ret(r.ret, << >>),
                     r.ret = "deleted")

SearchFiles(directory) ==
    /\ pc = "idle" /\ nops < MaxOps
    /\ \E r \in {search_files(World, directory)} :
            Returned(FileCall("search", directory, NONE), r.w, Ret(r.ret, r.val), FALSE)

\* edit_line up to the end of the apply loop (lines 255-297)
EditLine(a) ==
    /\ pc = "idle" /\ nops < MaxOps
    /\ \E r \in {EditApply(fs, a)} :
           /\ call' = a
           /\ nops' = nops + 1
           /\ touched' = IF r.err \in {"none", "range", "notfound"}
                         THEN touched \cup {r.filepath} ELSE touched
           /\ IF r.err = "none"
              THEN /\ pc' = "backup"
                   /\ edit' = [filepath |-> r.filepath, pre |-> fs[r.filepath].data,
                               original_lines |-> r.original_lines, lines |-> r.lines]
                   /\ ret' = Ret("running", << >>)
              ELSE /\ ret' = Ret(r.err, << >>)
                   /\ UNCHANGED <<pc, edit>>
    /\ UNCHANGED <<fs, recorded, history>>

\* line 299: open(filepath + '.bak', 'w')
EditBackupOpen ==
    /\ pc = "backup"
    /\ LET bak == edit.filepath \o BAK IN
       IF OpenErrno(fs, bak, "w") # 0
       THEN /\ ret' = Ret("oserror", << >>)
            /\ pc' = "idle"
            /\ UNCHANGED <<fs, touched>>
       ELSE /\ fs' = Bind(fs, bak, FileEntry(<< >>))
            /\ touched' = touched \cup {bak}
            /\ pc' = "backup_write"
            /\ UNCHANGED ret
    /\ UNCHANGED <<call, edit, recorded, history, nops>>

\* writelines(lines) on the file opened at path, then the close of the with block:
\* the file receives the next line, or is closed once it holds them all
WriteStep(path, lines, closed) ==
    IF fs[path].data = Concat(lines)
    THEN /\ pc' = closed
         /\ UNCHANGED fs
    ELSE /\ \E n \in 1..Len(lines) :
                /\ fs[path].data = Concat(SubSeq(lines, 1, n - 1))
                /\ fs' = Bind(fs, path, FileEntry(Concat(SubSeq(lines, 1, n))))
         /\ UNCHANGED pc

\* the edited list goes to the backup
BackupLines_edited(e) == e.lines

\* the list that line 300 writes to the backup
BackupLines(e) == e.original_lines

\* line 300: backup.writelines(original_lines)
EditBackupWrite ==
    /\ pc = "backup_write"
    /\ WriteStep(edit.filepath \o BAK, BackupLines(edit), "commit")
    /\ UNCHANGED <<call, ret, edit, touched, recorded, history, nops>>

\* line 302: open(filepath, 'w')
EditCommitOpen ==
    /\ pc = "commit"
    /\ fs' = Bind(fs, edit.filepath, FileEntry(<< >>))
    /\ pc' = "commit_write"
    /\ UNCHANGED <<call, ret, edit, touched, recorded, history, nops>>

\* line 303: f.writelines(lines)
EditCommitWrite ==
    /\ pc = "commit_write"
    /\ WriteStep(edit.filepath, edit.lines, "report")
    /\ UNCHANGED <<call, ret, edit, touched, recorded, history, nops>>

\* lines 305-312: the diff under debug, where difflib is not imported, or the summary
EditReport ==
    /\ pc = "report"
    /\ pc' = "idle"
    /\ IF call.debug
       THEN /\ ret' = Ret("nameerror", << >>)
            /\ UNCHANGED history
       ELSE /\ ret' = Ret("edited", IF edit.original_lines # edit.lines
                                    THEN <<"Success.">> ELSE <<"No changes made">>)
            /\ history' = history \cup {<<"edit", call.filename>>}
    /\ UNCHANGED <<fs, call, edit, touched, recorded, nops>>

\* the process dies between two steps of a running edit_line
Crash ==
    /\ pc \in {"backup", "backup_write", "commit", "commit_write", "report"}
    /\ pc' = "crashed"
    /\ UNCHANGED <<fs, call, ret, edit, touched, recorded, history, nops>>

EditSteps ==
    \/ EditBackupOpen
    \/ EditBackupWrite
    \/ EditCommitOpen
    \/ EditCommitWrite
    \/ EditReport
    \/ Crash

\* the caller makes the next call
Calls ==
    \/ \E f \in FileNames : ReadFile(f)
    \/ \E f \in FileNames, t \in Texts : WriteToFile(f, t)
    \/ \E f \in FileNames, t \in Texts : AppendToFile(f, t)
    \/ \E f \in FileNames : DeleteFile(f)
    \/ \E d \in Directories : SearchFiles(d)
    \/ \E a \in SessionEdits : EditLine(a)

Next ==
    \/ pc = "idle" /\ Calls /\ UNCHANGED <<split, memory>>
    \/ EditSteps /\ UNCHANGED <<split, memory>>

Spec == Init /\ [][Next]_vars

---------------------------------------------------------------------------
(* safe_join on its own: every base and relative path within the bounds *)

Bases == {<< >>, <<"a">>, <<"/", "a">>, <<"/", "a", "/">>, <<"/", "a", "/", "a">>}

RelPaths == UNION {[1..n -> {"/", ".", "a"}] : n \in 0..MaxRel}

InitJoin ==
    /\ fs = (SLASH :> DirEntry) @@ (DirName(WORKING_DIRECTORY) :> DirEntry)
                @@ (WORKING_DIRECTORY :> DirEntry)
    /\ pc = "join"
    /\ call \in {[NoCall EXCEPT !.op = "safe_join", !.base = b, !.filename = r] :
                    b \in Bases, r \in RelPaths}
    /\ ret = Ret("none", << >>)
    /\ edit = NoEdit
    /\ touched = {}
    /\ recorded = << >>
    /\ history = {}
    /\ nops = 0
    /\ split = NoSplit
    /\ memory = << >>

SafeJoin ==
    /\ pc = "join"
    /\ \E j \in {safe_join(call.base, call.filename)} :
            ret' = Ret(IF j.ok THEN "joined" ELSE "outside", j.path)
    /\ pc' = "idle"
    /\ nops' = nops + 1
    /\ UNCHANGED <<fs, call, edit, touched, recorded, history>>

NextJoin == SafeJoin /\ UNCHANGED <<split, memory>>

SpecJoin == InitJoin /\ [][NextJoin]_vars

---------------------------------------------------------------------------
(* edit_line on its own: the last call of a session, on every small file *)

Contents == UNION {[1..n -> {"a", "b", "\n"}] : n \in 0..MaxLen}

LineSpecs ==
    {<<"1">>, <<"2">>, <<"3">>, <<"1", ",", "1">>, <<"2", ",", "1">>, <<"1", ",", "2">>,
     <<"0">>, <<"x">>, NOT_STR}

EditActions == actions \cup {"move"}

OldTexts == {NONE, << >>, <<"a">>, <<"a", "a">>}

NewTexts == {NONE, <<"a">>, <<"b">>, <<"\n">>}

EditInputs ==
    {EditCall(FN_A, ln, act, old, new, dbg) :
        ln \in LineSpecs, act \in EditActions, old \in OldTexts, new \in NewTexts,
        dbg \in BOOLEAN}
    \cup {EditCall(f, <<"1">>, "delete", NONE, NONE, FALSE) : f \in {FN_SUB, FN_UP}}

InitEdit ==
    /\ fs \in {(SLASH :> DirEntry) @@ (DirName(WORKING_DIRECTORY) :> DirEntry)
                    @@ (WORKING_DIRECTORY :> DirEntry)
                    @@ (PathJoin(WORKING_DIRECTORY, FN_A) :> FileEntry(c)) : c \in Contents}
    /\ pc = "idle"
    /\ call = NoCall
    /\ ret = Ret("none", << >>)
    /\ edit = NoEdit
    /\ touched = {}
    /\ recorded = << >>
    /\ history = {}
    /\ nops = MaxOps - 1
    /\ split = NoSplit
    /\ memory = << >>

NextEdit ==
    \/ pc = "idle" /\ (\E a \in EditInputs : EditLine(a)) /\ UNCHANGED <<split, memory>>
    \/ EditSteps /\ UNCHANGED <<split, memory>>

SpecEdit == InitEdit /\ [][NextEdit]_vars

---------------------------------------------------------------------------
(* split_file on its own: the generator, one step per chunk pulled from it *)

SplitContents == UNION {[1..n -> {"a", "b"}] : n \in 0..MaxContent}

SplitInputs ==
    {[NoSplit EXCEPT !.content = c, !.max_length = m, !.overlap = o] :
        c \in SplitContents, m \in 1..MaxWindow, o \in 0..MaxWindow}

\* the consumer stops pulling from a generator that has yielded this many chunks
YieldCap(content) == Len(content) + 2

InitSplit ==
    /\ fs = (SLASH :> DirEntry) @@ (DirName(WORKING_DIRECTORY) :> DirEntry)
                @@ (WORKING_DIRECTORY :> DirEntry)
    /\ pc = "split"
    /\ call = [NoCall EXCEPT !.op = "split"]
    /\ ret = Ret("none", << >>)
    /\ edit = NoEdit
    /\ touched = {}
    /\ recorded = << >>
    /\ history = {}
    /\ nops = 0
    /\ split \in SplitInputs
    /\ memory = << >>

\* lines 87-94: the loop test holds, the next chunk is yielded and start advances
SplitYield ==
    /\ pc = "split"
    /\ split.start < Len(split.content)
    /\ Len(split.chunks) < YieldCap(split.content)
    /\ \E stop \in {ChunkStop(Len(split.content), split.start, split.max_length,
                               split.overlap)} :
            split' = [split EXCEPT
                        !.chunks = Append(@, PySlice(split.content, split.start, stop)),
                        !.windows = Append(@, <<SliceIndex(Len(split.content), split.start),
                                                SliceIndex(Len(split.content), stop)>>),
                        !.start = NextStart(@, split.max_length, split.overlap)]
    /\ UNCHANGED <<fs, pc, call, ret, edit, touched, recorded, history, nops, memory>>

\* line 87: the loop test fails and the generator is exhausted
SplitEnd ==
    /\ pc = "split"
    /\ ~(split.start < Len(split.content))
    /\ pc' = "idle"
    /\ ret' = Ret("exhausted", << >>)
    /\ nops' = nops + 1
    /\ UNCHANGED <<fs, call, edit, touched, recorded, history, split, memory>>

NextSplit ==
    \/ SplitYield
    \/ SplitEnd

SpecSplit == InitSplit /\ [][NextSplit]_vars

\* the consumer of the generator, list(...) at line 133, pulls until it is exhausted
FairSplit == SpecSplit /\ WF_vars(NextSplit)

---------------------------------------------------------------------------
(* ingest_file on its own: one call on each small sandbox, one step per      *)
(* memory.add                                                                *)

DecimalDigits == <<"0", "1", "2", "3", "4", "5", "6", "7", "8", "9">>

\* str(n) as an f-string formats a natural number
RECURSIVE FormatInt(_)
FormatInt(n) ==
    IF n < 10 THEN <<DecimalDigits[n + 1]>>
    ELSE FormatInt(n \div 10) \o <<DecimalDigits[(n % 10) + 1]>>

FILENAME_LABEL == <<"F", "i", "l", "e", "n", "a", "m", "e", ":", " ">>

PART_LABEL == <<"C", "o", "n", "t", "e", "n", "t", " ", "p", "a", "r", "t", "#">>

\* lines 138-140: the text added for chunk i (counted from 0) of num_chunks
memory_to_add(filename, i, num_chunks, chunk) ==
    FILENAME_LABEL \o filename \o <<"\n">> \o PART_LABEL \o FormatInt(i + 1) \o <<"/">>
        \o FormatInt(num_chunks) \o <<":", " ">> \o chunk

\* list(split_file(content, max_length, overlap)) returns
Exhaustible(content, max_length, overlap) == content = << >> \/ overlap < max_length

IngestNames == FileNames \cup {<< >>}

IngestContents == UNION {[1..n -> {"a", "b"}] : n \in 0..MaxLen}

InitIngest ==
    /\ fs \in {(SLASH :> DirEntry) @@ (DirName(WORKING_DIRECTORY) :> DirEntry)
                    @@ (WORKING_DIRECTORY :> DirEntry)}
               \cup
               {(SLASH :> DirEntry) @@ (DirName(WORKING_DIRECTORY) :> DirEntry)
                    @@ (WORKING_DIRECTORY :> DirEntry)
                    @@ (PathJoin(WORKING_DIRECTORY, FN_A) :> FileEntry(c)) :
                        c \in IngestContents}
    /\ pc = "idle"
    /\ call = NoCall
    /\ ret = Ret("none", << >>)
    /\ edit = NoEdit
    /\ touched = {}
    /\ recorded = << >>
    /\ history = {}
    /\ nops = MaxOps - 1
    /\ split = NoSplit
    /\ memory = << >>

\* lines 129-135: the file is read, whatever read_file returns is split, and the
\* chunks are collected
IngestFile(filename, max_length, overlap) ==
    /\ pc = "idle" /\ nops < MaxOps
    /\ \E r \in {read_file(World, filename)} :
        /\ Exhaustible(r.val, max_length, overlap)
        /\ touched' = r.w.touched
        /\ split' = [NoSplit EXCEPT !.content = r.val, !.max_length = max_length,
                                    !.overlap = overlap,
                                    !.chunks = split_file(r.val, max_length, overlap)]
    /\ call' = FileCall("ingest", filename, NONE)
    /\ pc' = "add"
    /\ UNCHANGED <<fs, ret, edit, recorded, history, nops, memory>>

\* line 133: list(...) of a generator that is never exhausted does not return
IngestHang(filename, max_length, overlap) ==
    /\ pc = "idle" /\ nops < MaxOps
    /\ \E r \in {read_file(World, filename)} :
        /\ ~Exhaustible(r.val, max_length, overlap)
        /\ touched' = r.w.touched
        /\ split' = [NoSplit EXCEPT !.content = r.val, !.max_length = max_length,
                                    !.overlap = overlap]
    /\ call' = FileCall("ingest", filename, NONE)
    /\ pc' = "list"
    /\ UNCHANGED <<fs, ret, edit, recorded, history, nops, memory>>

\* lines 136-142: the next chunk is labelled and added to the memory
MemoryAdd ==
    /\ pc = "add"
    /\ Len(memory) < Len(split.chunks)
    /\ memory' = Append(memory, memory_to_add(call.filename, Len(memory), Len(split.chunks),
                                              split.chunks[Len(memory) + 1]))
    /\ UNCHANGED <<fs, pc, call, ret, edit, touched, recorded, history, nops, split>>

\* line 144: every chunk has been added
IngestEnd ==
    /\ pc = "add"
    /\ Len(memory) = Len(split.chunks)
    /\ pc' = "idle"
    /\ ret' = Ret("done", << >>)
    /\ nops' = nops + 1
    /\ UNCHANGED <<fs, call, edit, touched, recorded, history, split, memory>>

NextIngest ==
    \/ \E filename \in IngestNames, max_length \in 1..MaxWindow, overlap \in 0..MaxWindow :
            \/ IngestFile(filename, max_length, overlap)
            \/ IngestHang(filename, max_length, overlap)
    \/ MemoryAdd
    \/ IngestEnd

SpecIngest == InitIngest /\ [][NextIngest]_vars

---------------------------------------------------------------------------
(* Vocabulary of the properties *)

\* p is the sandbox root or lies in its directory tree
InSandbox(p) ==
    \/ p = WORKING_DIRECTORY
    \/ /\ Len(p) > Len(WORKING_DIRECTORY) + 1
       /\ \A i \in 1..Len(WORKING_DIRECTORY) : p[i] = WORKING_DIRECTORY[i]
       /\ p[Len(WORKING_DIRECTORY) + 1] = "/"

\* base is a literal prefix of the string p
HasPrefix(p, base) == Len(base) <= Len(p) /\ \A i \in 1..Len(base) : p[i] = base[i]

\* where the most recent call's path argument points
Target(c) ==
    IF c.op = "search" /\ c.filename \in {<< >>, SLASH} THEN WORKING_DIRECTORY
    ELSE NormPath(PathJoin(c.base, c.filename))

\* the content of the file at path p, empty when there is no such file
DataAt(f, p) == IF IsFile(f, p) THEN f[p].data ELSE << >>

\* the content of the operation log
LogContent(f) == DataAt(f, LOG_FILE_PATH)

\* a call of the given operation returns or raises in this step
Returns(op) == pc = "idle" /\ nops' = nops + 1 /\ call'.op = op /\ pc' = "idle"

\* the entries occur in the content one after the other, from index from on
RECURSIVE InOrder(_, _, _)
InOrder(entries, content, from) ==
    IF entries = << >> THEN TRUE
    ELSE LET i == Find(content, Head(entries), from) IN
         i # -1 /\ InOrder(Tail(entries), content, i + Len(Head(entries)))

---------------------------------------------------------------------------
(* Properties *)

\* C1: after any sequence of read, write, append, delete, search and edit calls,
\* every path a call has read, listed, created, written or removed lies in the
\* directory tree of the sandbox root, and a call whose path resolves outside
\* that tree is rejected.
C1_PathConfinement ==
    /\ \A p \in touched : InSandbox(p)
    /\ (call.op \in {"read", "write", "append", "delete", "search", "edit"}
            /\ ~InSandbox(Target(call)))
        => /\ ret.kind \notin {"content", "written", "appended", "deleted", "running",
                                "edited", "nameerror"}
           /\ ret.kind = "found" => ret.val = {}

\* C2: safe_join(base, rel) fails when base is not a literal prefix of the
\* normalized join of base and rel, returns that normalized join otherwise, and
\* changes nothing in either case.
C2_Resolve ==
    (call.op = "safe_join" /\ pc = "idle") =>
        LET joined == NormPath(PathJoin(call.base, call.filename))
            comps == Split(joined, "/")
            lead == IF HasPrefix(joined, SLASH \o SLASH) /\ ~HasPrefix(joined, SLASH \o SLASH \o SLASH)
                    THEN 2 ELSE IF HasPrefix(joined, SLASH) THEN 1 ELSE 0
        IN  /\ IF HasPrefix(joined, call.base)
               THEN ret = Ret("joined", joined)
               ELSE ret.kind = "outside"
            \* the join is normalized: no empty or "." component, ".." only leading
            \* a relative path
            /\ joined # << >>
            /\ joined \notin {DOT, SLASH, SLASH \o SLASH} =>
                    \A k \in (lead + 1)..Len(comps) :
                        /\ comps[k] \notin {<< >>, DOT}
                        /\ comps[k] = DOTDOT =>
                                lead = 0 /\ \A m \in 1..(k - 1) : comps[m] = DOTDOT
            /\ touched = {} /\ recorded = << >> /\ history = {}
            /\ DOMAIN fs = {SLASH, DirName(WORKING_DIRECTORY), WORKING_DIRECTORY}

\* C2 witness: a relative path with a ".." segment has been rejected
C2_Witness ==
    /\ call.op = "safe_join" /\ pc = "idle"
    /\ call.base = <<"/", "a">>
    /\ Contains(call.filename, DOTDOT)
    /\ ret.kind = "outside"

\* C3: once write(f, x) has succeeded, a later write(f, y) fails as a duplicate
\* and leaves the content of f as it was before that call.
C3_WriteOnce ==
    [][(Returns("write") /\ <<"write", call'.filename>> \in history) =>
            /\ ret'.kind = "duplicate"
            /\ LET p == Resolve(call'.filename).path
               IN  IsFile(fs', p) = IsFile(fs, p) /\ DataAt(fs', p) = DataAt(fs, p)]_vars

\* C4: every entry line recorded earlier is still in the operation log, in the
\* order of recording.
C4_AppendOnlyLog == InOrder(recorded, LogContent(fs), 0)

\* C5: delete(f) on an existing file with no logged delete removes the file and
\* records the operation; a later delete(f) fails as a duplicate and removes
\* nothing; a delete that fails records nothing.
C5_DeleteOnce ==
    [][Returns("delete") =>
        LET f == call'.filename
            j == Resolve(f)
        IN  /\ (j.ok /\ IsFile(fs, j.path)
                    /\ ~Contains(LogContent(fs), LogEntry("delete", f))) =>
                    /\ ret'.kind = "deleted"
                    /\ ~Exists(fs', j.path)
                    /\ Contains(LogContent(fs'), LogEntry("delete", f))
            /\ <<"delete", f>> \in history =>
                    ret'.kind = "duplicate" /\ fs' = fs
            /\ ret'.kind # "deleted" =>
                    recorded' = recorded /\ LogContent(fs') = LogContent(fs)]_vars

\* C6: every append(f, t) to a file the sandbox can hold succeeds and leaves in f
\* its former content followed by t, so that appends t1, ..., tn leave the initial
\* content followed by t1 ... tn.
C6_AppendRepeatable ==
    [][(Returns("append") /\ Resolve(call'.filename).ok
            /\ IsDir(fs, DirName(Resolve(call'.filename).path))
            /\ ~IsDir(fs, Resolve(call'.filename).path)) =>
            LET p == Resolve(call'.filename).path
            IN  /\ ret'.kind = "appended"
                /\ IsFile(fs', p)
                /\ DataAt(fs', p) = DataAt(fs, p) \o call'.text]_vars

\* the edit_line call of the state has written both files
EditDone ==
    /\ call.op = "edit"
    /\ pc = "report" \/ (pc = "idle" /\ ret.kind \in {"edited", "nameerror"})

\* the number of lines of a content
NumLines(content) ==
    Cardinality({i \in 1..Len(content) : content[i] = "\n"})
        + (IF content # << >> /\ content[Len(content)] # "\n" THEN 1 ELSE 0)

\* the call a is one the claim C7 lists as failing at validation or apply
ShouldFail(f, a) ==
    LET p == Resolve(a.filename).path
        parsed == ParseLineNumbers(a.line_numbers)
        k == parsed.val[1]
    IN  \/ ~IsFile(f, p)
        \/ a.line_numbers = NOT_STR
        \/ ~parsed.ok
        \/ a.action \notin {"add", "insert", "modify", "replace", "delete"}
        \/ a.action \in {"add", "insert", "modify", "replace"} /\ a.new_text = NONE
        \/ a.action \in {"modify", "replace"} /\ a.old_text = NONE
        \/ k < 1
        \/ k > NumLines(f[p].data)
        \/ a.action \in {"modify", "replace"} /\ ~Contains(ReadLines(f[p].data)[k], a.old_text)

EditErrors ==
    {"outside", "nofile", "invalid_type", "invalid_action", "no_new_text", "no_old_text",
     "invalid_format", "range", "notfound"}

\* C7: an edit_line call that fails at validation or apply creates and modifies
\* no file, neither the target nor its .bak; the calls with a missing file, a
\* malformed line spec, an unknown action, a missing new_text or old_text, a line
\* out of range or an old_text not on the line fail so.
C7_EditAllOrNothing ==
    [][(pc = "idle" /\ nops' = nops + 1 /\ call'.op = "edit") =>
            /\ pc' = "idle" => (ret'.kind \in EditErrors /\ fs' = fs)
            /\ (Resolve(call'.filename).ok /\ ShouldFail(fs, call')) =>
                    (pc' = "idle" /\ fs' = fs)]_vars

\* C7 witness: a modify whose old_text is not on the line has failed, and there
\* is no .bak file
C7_Witness ==
    /\ call.op = "edit" /\ pc = "idle"
    /\ ret.kind = "notfound"
    /\ ~Exists(fs, PathJoin(WORKING_DIRECTORY, FN_A) \o BAK)

\* C8: while an edit_line call writes, and after a crash between two of its
\* steps, the content the file had before the edit is intact in the file or in
\* its .bak; the file changes only once the .bak holds that content verbatim;
\* after the backup the .bak holds it, also when the edit changes nothing.
C8_BackupThenCommit ==
    [][LET bak == edit'.filepath \o BAK IN
       /\ pc' \in {"backup", "backup_write", "commit", "commit_write", "report", "crashed"} =>
                (DataAt(fs', edit'.filepath) = edit'.pre \/ DataAt(fs', bak) = edit'.pre)
       /\ pc' \in {"commit", "commit_write", "report"} =>
                (IsFile(fs', bak) /\ fs'[bak].data = edit'.pre)
       /\ (pc # "idle" /\ DataAt(fs', edit.filepath) # DataAt(fs, edit.filepath)) =>
                DataAt(fs, edit.filepath \o BAK) = edit.pre]_vars

\* C8 witness: the process died while the edited lines were being written
\* over the original: the file holds part of the new content, the .bak the old
C8_Witness ==
    /\ pc = "crashed"
    /\ DataAt(fs, edit.filepath) # edit.pre
    /\ DataAt(fs, edit.filepath) # Concat(edit.lines)
    /\ DataAt(fs, edit.filepath \o BAK) = edit.pre
    /\ edit.pre # << >>

\* the call of the state is a completed edit of the given actions at a single
\* line number k of a file that had at least k lines
SingleEdit(acts, k) ==
    /\ EditDone
    /\ call.action \in acts
    /\ call.line_numbers \in {<<"1">>, <<"2">>, <<"3">>}
    /\ k = Ord[call.line_numbers[1]] - 48

\* the file has the lines of before with new_text as a new line k, and the .bak
\* has the lines of before
InsertedAt(k) ==
    LET before == ReadLines(edit.pre)
        after == ReadLines(DataAt(fs, edit.filepath))
        n == Len(before)
    IN  /\ Len(after) = n + 1
        /\ after[k] = call.new_text \o <<"\n">>
        /\ \A i \in 1..(k - 1) : after[i] = before[i]
        /\ \A i \in k..n : after[i + 1] = before[i]
        /\ ReadLines(DataAt(fs, edit.filepath \o BAK)) = before

\* C9 as stated: insert at line k of a file of n >= k lines yields n + 1 lines
\* with new_text as line k, whatever new_text is.
C9_InsertAnyText ==
    \A k \in 1..3 : SingleEdit({"insert", "add"}, k) => InsertedAt(k)

\* C9 amended: insert at line k of a file of n >= k lines with a new_text that
\* holds no line break yields n + 1 lines: lines 1..k-1 as before, new_text as
\* line k, the former lines k..n after it; the .bak holds the n lines of before.
C9_Insert ==
    \A k \in 1..3 :
        (SingleEdit({"insert", "add"}, k) /\ ~Contains(call.new_text, <<"\n">>))
            => InsertedAt(k)

\* C9 witness: an insert at line 2 of a file of at least two lines is complete
C9_Witness ==
    /\ SingleEdit({"insert"}, 2)
    /\ call.new_text = <<"b">>
    /\ Len(ReadLines(edit.pre)) >= 2

\* s with the first occurrence of old replaced by new
ReplacedFirst(s, old, new) ==
    LET i == Find(s, old, 0)
    IN  SubSeq(s, 1, i) \o new \o SubSeq(s, i + Len(old) + 1, Len(s))

\* the occurrences of old in s that a scan from the left takes: they do not
\* overlap, and an occurrence left out overlaps a taken one that starts before it
Taken(s, old) ==
    LET occ == {i \in 0..Len(s) : MatchAt(s, old, i)}
    IN  CHOOSE T \in SUBSET occ :
            /\ \A p, q \in T : p < q => p + Len(old) <= q
            /\ \A q \in occ \ T : \E p \in T : p < q /\ q < p + Len(old)

\* s with every occurrence in Taken(s, old) replaced by new
ReplacedAll(s, old, new) ==
    LET T == Taken(s, old)
    IN  Concat([i \in 1..(Len(s) + 1) |->
            (IF (i - 1) \in T THEN new ELSE << >>)
            \o (IF i <= Len(s) /\ ~\E p \in T : p < i /\ i <= p + Len(old)
                THEN <<s[i]>> ELSE << >>)])

\* the content of the file is that of before with line k replaced by line
LineReplaced(k, line) ==
    LET before == ReadLines(edit.pre)
    IN  DataAt(fs, edit.filepath)
            = Concat(SubSeq(before, 1, k - 1)) \o line
                \o Concat(SubSeq(before, k + 1, Len(before)))

\* C10 as stated: modify replaces the first occurrence of old_text in line k by
\* new_text and leaves the rest of the line and the other lines as they were.
C10_ModifyFirstOnly ==
    \A k \in 1..3 : SingleEdit({"modify", "replace"}, k) =>
        LineReplaced(k, ReplacedFirst(ReadLines(edit.pre)[k], call.old_text, call.new_text))

\* C10 amended: modify replaces every occurrence of old_text in line k that a
\* scan from the left finds (the occurrences do not overlap) by new_text and
\* leaves the rest of the line and the other lines as they were.
C10_ModifyAll ==
    \A k \in 1..3 : SingleEdit({"modify", "replace"}, k) =>
        LineReplaced(k, ReplacedAll(ReadLines(edit.pre)[k], call.old_text, call.new_text))

\* C10 witness: a modify of a line with two occurrences of old_text is complete
C10_Witness ==
    /\ SingleEdit({"modify"}, 1)
    /\ call.old_text = <<"a">> /\ call.new_text = <<"b">>
    /\ ReadLines(edit.pre)[1] = <<"a", "a", "\n">>

\* C11: every edit_line call that passes validation and apply, with debug set or
\* not, completes the commit and returns the summary, and the summary says
\* "Success." exactly when the final lines differ from the original ones.
C11_EditReport ==
    (call.op = "edit" /\ pc = "idle" /\ ret.kind \notin EditErrors) =>
        /\ ret.kind = "edited"
        /\ DataAt(fs, edit.filepath) = Concat(edit.lines)
        /\ (ret.val = <<"Success.">>)
                <=> (ReadLines(DataAt(fs, edit.filepath)) # ReadLines(edit.pre))

\* the split_file call of the state has maxLength > overlap >= 0
Chunking == call.op = "split" /\ split.max_length > split.overlap

\* C12: for maxLength > overlap >= 0, every chunk split yields has at most
\* maxLength characters.
C12_ChunkSize ==
    Chunking => \A i \in 1..Len(split.chunks) : Len(split.chunks[i]) <= split.max_length

\* the chunks i and i + 1 share exactly n characters: their ranges meet in n
\* positions, and the last n characters of one are the first n of the other
Shares(i, n) ==
    /\ split.windows[i][2] - split.windows[i + 1][1] = n
    /\ Len(split.chunks[i]) >= n /\ Len(split.chunks[i + 1]) >= n
    /\ SubSeq(split.chunks[i], Len(split.chunks[i]) - n + 1, Len(split.chunks[i]))
            = SubSeq(split.chunks[i + 1], 1, n)

\* C13: for maxLength > overlap >= 0, two consecutive chunks share exactly
\* overlap characters, unless the second of them is the last chunk.
C13_ChunkOverlap ==
    Chunking => \A i \in 1..(Len(split.chunks) - 2) : Shares(i, split.overlap)

\* C14: for maxLength > overlap >= 0, the chunks are slices of content whose
\* starts increase, each starting no later than the one before it stops, the
\* first at 0; once split has ended the last one stops at the end of content, so
\* every character of content is in a chunk.
C14_ChunkCoverage ==
    Chunking =>
        LET w == split.windows
            n == Len(w)
            L == Len(split.content)
        IN  /\ Len(split.chunks) = n
            /\ \A i \in 1..n :
                    /\ 0 <= w[i][1] /\ w[i][1] < w[i][2] /\ w[i][2] <= L
                    /\ split.chunks[i] = SubSeq(split.content, w[i][1] + 1, w[i][2])
            /\ n > 0 => w[1][1] = 0
            /\ \A i \in 1..(n - 1) : w[i][1] < w[i + 1][1] /\ w[i + 1][1] <= w[i][2]
            /\ pc = "idle" =>
                    /\ n = 0 <=> L = 0
                    /\ \A k \in 0..(L - 1) : \E i \in 1..n : w[i][1] <= k /\ k < w[i][2]

\* C14 witness: split has ended after three or more overlapping chunks
C14_Witness ==
    /\ Chunking /\ pc = "idle"
    /\ split.overlap > 0
    /\ Len(split.chunks) >= 3

\* C15: split of a non-empty content with overlap >= maxLength yields no chunk
\* and ends with InvalidConfiguration.
C15_ChunkerGuard ==
    (call.op = "split" /\ split.content # << >> /\ split.overlap >= split.max_length) =>
        /\ split.chunks = << >>
        /\ pc = "idle" => ret.kind = "invalid_configuration"

\* C16: for 0 <= overlap < maxLength, every step of split moves the window start
\* strictly forward, and split ends after finitely many chunks.
C16_StartIncreases ==
    [][(Chunking /\ pc = "split" /\ pc' = "split") => split'.start > split.start]_vars

C16_ChunkerTerminates ==
    /\ C16_StartIncreases
    /\ Chunking ~> (pc = "idle" /\ ret.kind = "exhausted")

\* C16 witness: split has ended after three or more chunks
C16_Witness ==
    /\ Chunking /\ pc = "idle" /\ ret.kind = "exhausted"
    /\ Len(split.chunks) >= 3
    /\ split.start >= Len(split.content)

\* the chunks of the call's file, labelled with the filename and part i of N
Labelled(filename, chunks) ==
    [i \in 1..Len(chunks) |-> memory_to_add(filename, i - 1, Len(chunks), chunks[i])]

\* C17: when the read of the file fails, ingest adds nothing to the memory and
\* reports the failure; when it succeeds, the memory receives the chunks of the
\* file's content, one add per chunk, in order, labelled with the filename and
\* part i of N.
C17_IngestOnlyContent ==
    call.op = "ingest" =>
        With(read_file(World, call.filename), LAMBDA r :
            IF ~r.ok
            THEN /\ memory = << >>
                 /\ pc = "idle" => ret.kind = "read_failed"
            ELSE Exhaustible(r.val, split.max_length, split.overlap) =>
                    With(Labelled(call.filename,
                                  split_file(r.val, split.max_length, split.overlap)),
                         LAMBDA expected :
                            /\ Len(memory) <= Len(expected)
                            /\ memory = SubSeq(expected, 1, Len(memory))
                            /\ pc = "idle" => memory = expected /\ ret.kind = "done"))

\* C18: a write, append or delete that succeeds returns with the log holding
\* its former content (the header, when there was no log) followed by the one
\* entry line of that call and nothing else; a call that fails leaves the log
\* as it was.
C18_RecordOnce ==
    [][(pc = "idle" /\ pc' = "idle" /\ nops' = nops + 1
            /\ call'.op \in {"write", "append", "delete"}) =>
            IF ret'.kind \in {"written", "appended", "deleted"}
            THEN LogContent(fs') =
                    (IF IsFile(fs, LOG_FILE_PATH) THEN LogContent(fs) ELSE LOG_HEADER)
                        \o LogEntry(call'.op, call'.filename)
            ELSE LogContent(fs') = LogContent(fs)]_vars

\* the list without the elements at the given indices
Without(seq, indices) ==
    LET keep == Sorted((1..Len(seq)) \ indices)
    IN  [i \in 1..Len(keep) |-> seq[keep[i]]]

\* where in the final list the lines of one or two entries applied in order are:
\* for delete the indices, in the list of before, of the lines removed; for
\* insert the indices, in the list of after, of the lines added
Shifted(action, nums) ==
    IF Len(nums) = 1 THEN {nums[1]}
    ELSE IF action = "delete"
    THEN {nums[1], IF nums[2] < nums[1] THEN nums[2] ELSE nums[2] + 1}
    ELSE {nums[2], IF nums[2] <= nums[1] THEN nums[1] + 1 ELSE nums[1]}

\* C19: the line numbers of a delete or insert call are taken in the order
\* given and the k-th is checked against the line count left by the k-1 entries
\* before it; when one is < 1 or above that count the call fails as out of
\* range and writes nothing, otherwise each entry has acted on the lines as the
\* earlier entries left them.
C19_SequentialBatch ==
    [][(/\ pc = "idle" /\ nops' = nops + 1 /\ call'.op = "edit"
        /\ Resolve(call'.filename).ok /\ IsFile(fs, Resolve(call'.filename).path)
        /\ call'.line_numbers # NOT_STR /\ ParseLineNumbers(call'.line_numbers).ok
        /\ \/ call'.action = "delete"
           \/ call'.action \in {"add", "insert"} /\ call'.new_text # NONE) =>
            LET nums == ParseLineNumbers(call'.line_numbers).val
                before == ReadLines(fs[Resolve(call'.filename).path].data)
                delta == IF call'.action = "delete" THEN -1 ELSE 1
                OutOfRange(k) == nums[k] < 1 \/ nums[k] > Len(before) + (k - 1) * delta
            IN  IF \E k \in 1..Len(nums) : OutOfRange(k)
                THEN pc' = "idle" /\ ret'.kind = "range" /\ fs' = fs
                ELSE /\ pc' = "backup" /\ fs' = fs
                     /\ edit'.original_lines = before
                     /\ IF call'.action = "delete"
                        THEN edit'.lines = Without(before, Shifted("delete", nums))
                        ELSE /\ Len(edit'.lines) = Len(before) + Len(nums)
                             /\ \A i \in Shifted("insert", nums) :
                                    edit'.lines[i] = call'.new_text \o <<"\n">>
                             /\ Without(edit'.lines, Shifted("insert", nums)) = before]_vars

\* C19 witness: delete of "1,1" on a file of one line has failed as out of
\* range at its second entry, and the file still has its line
C19_Witness ==
    /\ call.op = "edit" /\ pc = "idle"
    /\ call.action = "delete" /\ call.line_numbers = <<"1", ",", "1">>
    /\ ret.kind = "range"
    /\ Len(ReadLines(DataAt(fs, PathJoin(WORKING_DIRECTORY, FN_A)))) = 1
    /\ ~Exists(fs, PathJoin(WORKING_DIRECTORY, FN_A) \o BAK)

\* C20: for maxLength > overlap >= 0, no chunk follows a chunk that stops at
\* the end of content, and every chunk stops after the chunk before it, so it
\* holds a character that chunk does not.
C20_NoRedundantChunk ==
    Chunking =>
        \A i \in 1..(Len(split.windows) - 1) :
            /\ split.windows[i][2] < Len(split.content)
            /\ split.windows[i + 1][2] > split.windows[i][2]

====
